---------------------------- MODULE Spec2Model ----------------------------
(***************************************************************************)
(* Training / checkpoint lifecycle of Model (src/model.py), the attention  *)
(* of CamlConvAttnPool.forward (src/network/caml.py) and the logs file of  *)
(* dump_log (src/utils/utils.py).                                          *)
(*                                                                         *)
(* Spec: one Model instance is live at a time.  It is either built fresh   *)
(* (Model.__init__ without ckpt) or by Model.load from one of the two      *)
(* checkpoint files model_last.pt / model_best.pt.  Model.train is run     *)
(* once per instance; its body is split at the statements where a          *)
(* KeyboardInterrupt can be delivered.  Validation metrics are the         *)
(* values evaluate() returns, scaled to small naturals.  A file that is    *)
(* open for writing holds nothing that can be read.  The directories and   *)
(* files that exist before the run are part of the initial state.          *)
(* FairSpec: Spec, with the running train call always making progress.     *)
(* AttnSpec: the attention weights of one document.                        *)
(* LogSpec: two callers of dump_log on one logs file.                      *)
(***************************************************************************)
EXTENDS Naturals, Integers, Sequences, FiniteSets, TLC

\* ------------------------------------------------------------------ bounds
MaxEpochs == 3
MaxPatience == 2
MaxMetric == 1
NumBatches == 2
MaxLoads == 1
NumLabels == 2
SeqLen == 2
MaxScore == 2
MaxCalls == 3

VARIABLES
    config,          \* the shared config object: epochs, patience, run_name, ...
    model,           \* the live Model instance (self)
    ckpt_arg,        \* the ckpt argument the live instance was constructed with
    last,            \* content of <result_dir>/<run_name>/model_last.pt
    best,            \* content of <result_dir>/<run_name>/model_best.pt
    stray,           \* content of the file line 223 names, when that is a file
                     \* of another directory than the run's
    pc,              \* position of the control in Model.__init__ / Model.train
    epoch,           \* local of train
    patience,        \* local of train
    idx,             \* batches of the running train_epoch already stepped
    dev_metric,      \* dev_metrics[0][config.val_metric] of the last evaluate
    is_best,         \* argument of the running save
    ckpt,            \* local of save: the dict built at lines 208-216
    interrupted_at,  \* where the exception that ended train was raised
    exc,             \* the kind of that exception ("none" if there was none)
    history,         \* the evaluated epochs the live instance descends from:
                     \* epoch, metric, decision, and the instance that ran it
    written,         \* per file, the history of the instance when it wrote it
    completed,       \* both files as they were when the last save returned
    loads,           \* number of Model.load calls so far
    scores,          \* caml.py line 43: U.weight.matmul(x.transpose(1,2)) of one
                     \* document, label x position
    alpha,           \* caml.py line 43: the attention, label x position, each
                     \* weight a fraction [num, den]
    logs,            \* content of <result_dir>/<run_name>/logs.json
    dl,              \* per caller of dump_log: position, arguments, local result
    calls,           \* the dump_log calls that have returned, in order
    overlap          \* some dump_log call read the file while another one was
                     \* between its read and its write

trainVars == <<config, model, ckpt_arg, last, best, stray, pc, epoch, patience, idx,
               dev_metric, is_best, ckpt, interrupted_at, exc, history, written,
               completed, loads>>

attnVars == <<scores, alpha>>

logVars == <<logs, dl, calls, overlap>>

\* What no step of Model touches.
otherVars == <<attnVars, logVars>>

vars == <<trainVars, attnVars, logVars>>

NoCkpt == [epoch |-> -1]

Metrics == 0..MaxMetric

\* ------------------------------------------------------------ construction

\* The arguments a fresh Model is constructed with: a vocabulary whose vectors
\* are not loaded yet, and the label set.
Vocab == [stoi |-> "vocab", vectors |-> FALSE]
Classes == <<"c1", "c2">>

\* The optimizer names config.optimizer is drawn from.
Optimizers == {"adam", "rmsprop"}

\* lines 47-53: set_vectors / load_vectors fill the vectors of the vocabulary
\* object itself.
LoadVectors(word_dict) == [word_dict EXCEPT !.vectors = TRUE]

\* An instance attribute that has not been assigned.
NoNetwork == [id |-> "none"]
NoOptimizer == [name |-> "none"]

\* The instance before __init__ has run: its arguments, nothing built.
Unbuilt == [start_epoch |-> 0,
            best_metric |-> 0,
            word_dict   |-> Vocab,
            classes     |-> Classes,
            network     |-> NoNetwork,
            optimizer   |-> NoOptimizer]

\* get_network(config, embed_vecs).to(device): a freshly initialised module,
\* in training mode (nn.Module default), no gradients yet.  id names the
\* module object: "self" is the one the instance's own __init__ built.
NewNetwork == [weights |-> 0, training |-> TRUE, grad |-> "none", id |-> "self"]

\* line 83: clip_grad_value_ clamps the gradients that exist when it is called.
ClipGradValue(grad) == IF grad = "computed" THEN "clipped" ELSE grad

\* init_optimizer: a new optimizer over the parameters of the network just
\* built, empty state (lines 71-78); with any other name self.optimizer stays
\* unassigned (the raise of line 81 is InitError).
InitOptimizer(name) ==
    IF name \in {"sgd", "adam"}
    THEN [name |-> name, state |-> 0, params |-> "self"]
    ELSE NoOptimizer

\* The embedding sources config.embed_file is drawn from: the name of a
\* torchtext source, and a string of digits that is no existing path.
EmbedFiles == {"glove", "300"}

\* str.isdigit() of line 51, on the names of EmbedFiles.
IsDigit(name) == name = "300"

\* The exception Model.__init__ ends with, "none" when it returns: line 55
\* (only without ckpt: the embedding is loaded in the else branch of line 40),
\* or line 81, reached from line 60.
InitError(cfg, c) ==
    IF c = NoCkpt /\ IsDigit(cfg.embed_file)
    THEN "NotImplementedError"
    ELSE IF cfg.optimizer \notin {"sgd", "adam"}
         THEN "RuntimeError"
         ELSE "none"

\* Mutant of ModelInit: line 39 lost, start_epoch stays at the 0 of line 32.
ModelInit_NoEpoch(cfg, word_dict, classes, c) ==
    LET err   == InitError(cfg, c)
        built == err # "NotImplementedError"
        done  == err = "none"
    IN [start_epoch |-> 0,
        best_metric |-> IF c # NoCkpt THEN c.best_metric ELSE 0,
        word_dict   |-> IF c # NoCkpt THEN c.word_dict
                        ELSE IF built THEN LoadVectors(word_dict)
                        ELSE word_dict,
        classes     |-> IF c # NoCkpt THEN c.classes ELSE classes,
        network     |-> IF ~built THEN NoNetwork
                        ELSE IF ~done THEN NewNetwork
                        ELSE IF c # NoCkpt
                        THEN [NewNetwork EXCEPT !.grad = ClipGradValue(@),
                                                !.weights = c.state_dict]
                        ELSE [NewNetwork EXCEPT !.grad = ClipGradValue(@)],
        optimizer   |-> IF ~done THEN NoOptimizer
                        ELSE IF c # NoCkpt
                        THEN [InitOptimizer(cfg.optimizer)
                                 EXCEPT !.state = c.optimizer]
                        ELSE InitOptimizer(cfg.optimizer)]

\* Model.__init__: the instance built from (config, word_dict, classes, ckpt),
\* as far as the constructor gets.  With a ckpt, vocabulary, label set,
\* best_metric and start_epoch come from it (lines 35-39); without, the
\* vectors of the given vocabulary are loaded (lines 47-53) unless line 55
\* raises.  Then the network is built (line 59) and init_optimizer called
\* (line 60), which clips (line 83) last; only when it has returned are the
\* state dicts of the ckpt loaded (lines 62-64).
ModelInit(cfg, word_dict, classes, c) ==
    LET err   == InitError(cfg, c)
        built == err # "NotImplementedError"
        done  == err = "none"
    IN [start_epoch |-> IF c # NoCkpt THEN c.epoch ELSE 0,
        best_metric |-> IF c # NoCkpt THEN c.best_metric ELSE 0,
        word_dict   |-> IF c # NoCkpt THEN c.word_dict
                        ELSE IF built THEN LoadVectors(word_dict)
                        ELSE word_dict,
        classes     |-> IF c # NoCkpt THEN c.classes ELSE classes,
        network     |-> IF ~built THEN NoNetwork
                        ELSE IF ~done THEN NewNetwork
                        ELSE IF c # NoCkpt
                        THEN [NewNetwork EXCEPT !.grad = ClipGradValue(@),
                                                !.weights = c.state_dict]
                        ELSE [NewNetwork EXCEPT !.grad = ClipGradValue(@)],
        optimizer   |-> IF ~done THEN NoOptimizer
                        ELSE IF c # NoCkpt
                        THEN [InitOptimizer(cfg.optimizer)
                                 EXCEPT !.state = c.optimizer]
                        ELSE InitOptimizer(cfg.optimizer)]

\* Model.__init__ also writes to the config object it was given: run_name at
\* line 35, num_class at line 56 (not reached when line 55 raises).
ConfigInit(cfg, classes, c) ==
    IF c # NoCkpt
    THEN [cfg EXCEPT !.run_name = c.run_name, !.num_class = Len(c.classes)]
    ELSE IF IsDigit(cfg.embed_file)
         THEN cfg
         ELSE [cfg EXCEPT !.num_class = Len(classes)]

\* Mutant of MakeCkpt: the optimizer state is left out of the dict.
MakeCkpt_NoOptimizer(m, cfg, e) ==
    [epoch       |-> e,
     run_name    |-> cfg.run_name,
     state_dict  |-> m.network.weights,
     word_dict   |-> m.word_dict,
     classes     |-> m.classes,
     optimizer   |-> 0,
     best_metric |-> m.best_metric]

\* The dict save() builds from the live instance (lines 208-216).
MakeCkpt(m, cfg, e) ==
    [epoch       |-> e,
     run_name    |-> cfg.run_name,
     state_dict  |-> m.network.weights,
     word_dict   |-> m.word_dict,
     classes     |-> m.classes,
     optimizer   |-> m.optimizer.state,
     best_metric |-> m.best_metric]

\* ------------------------------------------------------------------ paths

\* The result directories config.result_dir is drawn from.
ResultDirs == {"results", "last_results"}

\* A name as the pieces str.replace sees: the occurrences of 'last' and what
\* is between them.
Tokens(name) ==
    CASE name = "last_results" -> <<"last", "_results">>
      [] name = "last_run"     -> <<"last", "_run">>
      [] OTHER                 -> <<name>>

\* save lines 217-218: os.path.join(result_dir, run_name, 'model_last.pt').
CkptPath(cfg) ==
    Tokens(cfg.result_dir) \o <<"/">> \o Tokens(cfg.run_name)
        \o <<"/", "model_", "last", ".pt">>

\* save line 223: ckpt_path.replace('last', 'best') replaces every occurrence
\* in the path.
BestCkptPath(cfg) ==
    [i \in 1..Len(CkptPath(cfg)) |->
        IF CkptPath(cfg)[i] = "last" THEN "best" ELSE CkptPath(cfg)[i]]

\* os.path.dirname of a path as CkptPath builds it.
DirName(path) == SubSeq(path, 1, Len(path) - 4)

\* Line 223 names a file of the run's own directory, the one load_best reads
\* (lines 234-235).
SameDir(cfg) == DirName(BestCkptPath(cfg)) = DirName(CkptPath(cfg))

\* The directory of the file line 223 names does not exist (save makes the
\* directory of ckpt_path only, line 219).
NoDir == [epoch |-> -3]

\* What a file holds while it is open for writing and not yet written: no
\* checkpoint can be read from it.
Torn == [epoch |-> -2]

\* torch.load of the file gives a checkpoint.
Readable(file) == file # NoCkpt /\ file # Torn

\* --------------------------------------------------------------- positions

\* Positions inside the try block of train (lines 95-119).
BatchPcs == {"batch", "zero_grad", "backward", "step"}
SavePcs  == {"save", "torch_save", "torch_write", "copyfile", "copy_write",
             "save_end"}
TryPcs   == {"while"} \cup BatchPcs
                \cup {"evaluate", "decide"} \cup SavePcs \cup {"post_save", "incr"}
\* train has returned to its caller (loop exit or caught interrupt), or raised.
EndPcs   == {"returned", "terminated", "raised"}
\* Where the caller of the instance makes its other calls, predict and
\* load_best: before train, or after train has ended, by the end of its
\* loop, by a caught interrupt or by an exception the caller caught.
CallPcs  == {"idle"} \cup EndPcs

\* ------------------------------------------------------- the idle machines

\* No document has been run through the network.
AttnIdle == scores = <<>> /\ alpha = <<>>

\* The logs file: whether it exists (utils.py line 65), whether it holds a
\* JSON document, the dict json.load gives back, a function from the splits
\* it has to their lists, and its size in bytes.
NoLogs == [exists |-> FALSE, valid |-> FALSE, content |-> <<>>, size |-> 0]

Procs == {"p1", "p2"}
Splits == {"train", "val"}
NoCall == [pc |-> "idle"]

\* Nobody has called dump_log; there is no logs file.
LogIdle ==
    /\ logs = NoLogs
    /\ dl = [p \in Procs |-> NoCall]
    /\ calls = <<>>
    /\ overlap = FALSE

\* ------------------------------------------------------------------- Init

\* What is on disk where line 223 points outside the run's directory
\* <d>/run: no such directory, or a directory without the file.  Where
\* line 223 points into the run's directory there is no such other place.
StrayDirs(d) ==
    IF Tokens(d) = <<d>> THEN {NoDir} ELSE {NoDir, NoCkpt}

\* Model(config, word_dict, classes) is about to be called with the given
\* epochs, patience, optimizer name, embedding source and result directory;
\* num_class 0 stands for "not set".
TrainInit(e, p, o, f, d, s) ==
    /\ config = [epochs |-> e, patience |-> p, run_name |-> "run",
                 optimizer |-> o, embed_file |-> f, result_dir |-> d,
                 num_class |-> 0]
    /\ model = Unbuilt
    /\ ckpt_arg = NoCkpt
    /\ last = NoCkpt
    /\ best = NoCkpt
    /\ stray = s
    /\ pc = "new"
    /\ epoch = 0
    /\ patience = 0
    /\ idx = 0
    /\ dev_metric = 0
    /\ is_best = FALSE
    /\ ckpt = NoCkpt
    /\ interrupted_at = "none"
    /\ exc = "none"
    /\ history = <<>>
    /\ written = [last |-> <<>>, best |-> <<>>]
    /\ completed = [last |-> NoCkpt, best |-> NoCkpt]
    /\ loads = 0

Init ==
    /\ \E e \in 1..MaxEpochs, p \in 0..MaxPatience, o \in Optimizers,
          f \in EmbedFiles, d \in ResultDirs :
          \E s \in StrayDirs(d) : TrainInit(e, p, o, f, d, s)
    /\ AttnIdle
    /\ LogIdle

\* ------------------------------------------------------------ __init__

\* Model.__init__ (lines 29-64) of a fresh instance.  When it raises, the
\* constructor is left at line 55 or line 81 with what the lines before did.
Construct ==
    /\ pc = "new"
    /\ config' = ConfigInit(config, model.classes, NoCkpt)
    /\ model' = ModelInit(config, model.word_dict, model.classes, NoCkpt)
    /\ IF InitError(config, NoCkpt) # "none"
       THEN pc' = "init_failed" /\ exc' = InitError(config, NoCkpt)
       ELSE pc' = "idle" /\ exc' = exc
    /\ UNCHANGED <<ckpt_arg, last, best, epoch, patience, idx, dev_metric,
                   is_best, ckpt, interrupted_at, history, written, completed,
                   loads>>
    /\ UNCHANGED <<stray, otherVars>>

\* ------------------------------------------------------------------ train

\* train() is called; the data loaders are being built (lines 91-94, outside try).
TrainCall ==
    /\ pc = "idle"
    /\ pc' = "setup"
    /\ UNCHANGED <<config, model, ckpt_arg, last, best, epoch, patience, idx,
                   dev_metric, is_best, ckpt, interrupted_at, exc, history, written,
                   completed, loads>>
    /\ UNCHANGED <<stray, otherVars>>

\* lines 95-97: the try block is entered.
TrainBegin ==
    /\ pc = "setup"
    /\ epoch' = model.start_epoch + 1
    /\ patience' = config.patience
    /\ pc' = "while"
    /\ UNCHANGED <<config, model, ckpt_arg, last, best, idx, dev_metric,
                   is_best, ckpt, interrupted_at, exc, history, written, completed, loads>>
    /\ UNCHANGED <<stray, otherVars>>

\* Mutant of PatienceExhausted: the test misses the value 0.
PatienceExhausted_Negative(p) == p < 0

\* The patience test of line 99.
PatienceExhausted(p) == p = 0

\* lines 98-105: loop test, patience test, entry into train_epoch.
WhileTest ==
    /\ pc = "while"
    /\ IF epoch <= config.epochs /\ ~PatienceExhausted(patience)
       THEN pc' = "batch" /\ idx' = 0
       ELSE pc' = "returned" /\ idx' = idx
    /\ UNCHANGED <<config, model, ckpt_arg, last, best, epoch, patience,
                   dev_metric, is_best, ckpt, interrupted_at, exc, history, written,
                   completed, loads>>
    /\ UNCHANGED <<stray, otherVars>>

\* train_epoch line 131 and train_step lines 148-159: next batch, train mode,
\* forward pass; or the end of the epoch (lines 140-142).
NextBatch ==
    /\ pc = "batch"
    /\ IF idx < NumBatches
       THEN /\ model' = [model EXCEPT !.network.training = TRUE]
            /\ pc' = "zero_grad"
       ELSE /\ model' = model
            /\ pc' = "evaluate"
    /\ UNCHANGED <<config, ckpt_arg, last, best, epoch, patience, idx,
                   dev_metric, is_best, ckpt, interrupted_at, exc, history, written,
                   completed, loads>>
    /\ UNCHANGED <<stray, otherVars>>

\* The optimizer holds the parameters of the network the instance has now.
Bound(m) == m.optimizer.params = m.network.id

\* line 162: the optimizer zeroes the gradients of the parameters it holds.
ZeroGrad ==
    /\ pc = "zero_grad"
    /\ model' = IF Bound(model)
                THEN [model EXCEPT !.network.grad = "zero"]
                ELSE model
    /\ pc' = "backward"
    /\ UNCHANGED <<config, ckpt_arg, last, best, epoch, patience, idx,
                   dev_metric, is_best, ckpt, interrupted_at, exc, history, written,
                   completed, loads>>
    /\ UNCHANGED <<stray, otherVars>>

\* line 163
Backward ==
    /\ pc = "backward"
    /\ model' = [model EXCEPT !.network.grad = "computed"]
    /\ pc' = "step"
    /\ UNCHANGED <<config, ckpt_arg, last, best, epoch, patience, idx,
                   dev_metric, is_best, ckpt, interrupted_at, exc, history, written,
                   completed, loads>>
    /\ UNCHANGED <<stray, otherVars>>

\* line 164: the optimizer applies the gradients of the parameters it holds
\* to them.  Parameters of a network the instance no longer has were never
\* given a gradient (train runs once per instance, so a load_best before it
\* found the instance as it was built): step() passes them over.
OptimizerStep ==
    /\ pc = "step"
    /\ model' = IF Bound(model)
                THEN [model EXCEPT !.network.weights = @ + 1,
                                   !.network.grad = "applied",
                                   !.optimizer.state = @ + 1]
                ELSE model
    /\ idx' = idx + 1
    /\ pc' = "batch"
    /\ UNCHANGED <<config, ckpt_arg, last, best, epoch, patience,
                   dev_metric, is_best, ckpt, interrupted_at, exc, history, written,
                   completed, loads>>
    /\ UNCHANGED <<stray, otherVars>>

\* line 108, inside evaluate(): Model.predict is called on a batch of the dev
\* set: evaluation mode (line 183), forward pass.  evaluate makes as many such
\* calls as the dev loader has batches, possibly none.
PredictDev ==
    /\ pc = "evaluate"
    /\ model' = [model EXCEPT !.network.training = FALSE]
    /\ UNCHANGED <<config, ckpt_arg, last, best, pc, epoch, patience, idx,
                   dev_metric, is_best, ckpt, interrupted_at, exc, history,
                   written, completed, loads>>
    /\ UNCHANGED <<stray, otherVars>>

\* line 108: evaluate() returns the metrics.
Evaluate ==
    /\ pc = "evaluate"
    /\ \E m \in Metrics : dev_metric' = m
    /\ pc' = "decide"
    /\ UNCHANGED <<config, model, ckpt_arg, last, best, epoch, patience, idx,
                   is_best, ckpt, interrupted_at, exc, history, written,
                   completed, loads>>
    /\ UNCHANGED <<stray, otherVars>>

\* The comparison of line 110.
Improved(metric, best_metric) == metric >= best_metric

\* lines 110-111 / 114-115: the decision, up to the call of save.
Decide ==
    /\ pc = "decide"
    /\ IF Improved(dev_metric, model.best_metric)
       THEN /\ model' = [model EXCEPT !.best_metric = dev_metric]
            /\ is_best' = TRUE
       ELSE /\ model' = model
            /\ is_best' = FALSE
    /\ history' = Append(history, [epoch |-> epoch, metric |-> dev_metric,
                                   is_best |-> is_best', inst |-> loads])
    /\ pc' = "save"
    /\ UNCHANGED <<config, ckpt_arg, last, best, epoch, patience, idx,
                   dev_metric, ckpt, interrupted_at, exc, written, completed, loads>>
    /\ UNCHANGED <<stray, otherVars>>

\* save lines 207-216
SaveBegin ==
    /\ pc = "save"
    /\ model' = [model EXCEPT !.network.training = FALSE]
    /\ ckpt' = MakeCkpt(model', config, epoch)
    /\ pc' = "torch_save"
    /\ UNCHANGED <<config, ckpt_arg, last, best, epoch, patience, idx,
                   dev_metric, is_best, interrupted_at, exc, history, written, completed, loads>>
    /\ UNCHANGED <<stray, otherVars>>

\* save line 221, first half: torch.save opens model_last.pt for writing,
\* which empties it.
TorchOpen ==
    /\ pc = "torch_save"
    /\ last' = Torn
    /\ pc' = "torch_write"
    /\ UNCHANGED <<config, model, ckpt_arg, best, epoch, patience, idx,
                   dev_metric, is_best, ckpt, interrupted_at, exc, history,
                   written, completed, loads>>
    /\ UNCHANGED <<stray, otherVars>>

\* save lines 221-222: torch.save has written the dict and returns.
TorchSave ==
    /\ pc = "torch_write"
    /\ last' = ckpt
    /\ written' = [written EXCEPT !.last = history]
    /\ pc' = IF is_best THEN "copyfile" ELSE "save_end"
    /\ UNCHANGED <<config, model, ckpt_arg, best, epoch, patience, idx,
                   dev_metric, is_best, ckpt, interrupted_at, exc, history,
                   completed, loads>>
    /\ UNCHANGED <<stray, otherVars>>

\* save lines 223-225, first half: shutil.copyfile opens the file line 223
\* names for writing, which empties it.  The only directory save makes is
\* that of ckpt_path (line 219): when the file is named in another directory
\* and that does not exist, FileNotFoundError leaves save and train.
CopyOpen ==
    /\ pc = "copyfile"
    /\ IF SameDir(config)
       THEN /\ best' = Torn
            /\ pc' = "copy_write"
            /\ UNCHANGED <<stray, interrupted_at, exc>>
       ELSE IF stray # NoDir
       THEN /\ stray' = Torn
            /\ pc' = "copy_write"
            /\ UNCHANGED <<best, interrupted_at, exc>>
       ELSE /\ pc' = "raised"
            /\ interrupted_at' = pc
            /\ exc' = "Exception"
            /\ UNCHANGED <<best, stray>>
    /\ UNCHANGED <<config, model, ckpt_arg, last, epoch, patience, idx,
                   dev_metric, is_best, ckpt, history, written, completed, loads>>
    /\ UNCHANGED otherVars

\* save line 225: shutil.copyfile has copied the file just written to the
\* file line 223 names.
CopyFile ==
    /\ pc = "copy_write"
    /\ IF SameDir(config)
       THEN /\ best' = last
            /\ written' = [written EXCEPT !.best = written.last]
            /\ UNCHANGED stray
       ELSE /\ stray' = last
            /\ UNCHANGED <<best, written>>
    /\ pc' = "save_end"
    /\ UNCHANGED <<config, model, ckpt_arg, last, epoch, patience, idx,
                   dev_metric, is_best, ckpt, interrupted_at, exc, history,
                   completed, loads>>
    /\ UNCHANGED otherVars

\* Mutant of SaveEnd: line 226 lost, the network stays in evaluation mode.
SaveEnd_NoTrain ==
    /\ pc = "save_end"
    /\ completed' = [last |-> last, best |-> best]
    /\ pc' = "post_save"
    /\ UNCHANGED <<config, model, ckpt_arg, last, best, epoch, patience, idx,
                   dev_metric, is_best, ckpt, interrupted_at, exc, history,
                   written, loads>>
    /\ UNCHANGED <<stray, otherVars>>

\* save line 226, and the return of save
SaveEnd ==
    /\ pc = "save_end"
    /\ model' = [model EXCEPT !.network.training = TRUE]
    /\ completed' = [last |-> last, best |-> best]
    /\ pc' = "post_save"
    /\ UNCHANGED <<config, ckpt_arg, last, best, epoch, patience, idx,
                   dev_metric, is_best, ckpt, interrupted_at, exc, history, written, loads>>
    /\ UNCHANGED <<stray, otherVars>>

\* Mutant of Decrement: the patience is decreased by 2.
Decrement_Twice(p) == p - 2

\* line 117
Decrement(p) == p - 1

\* line 113 / line 117
PatienceUpdate ==
    /\ pc = "post_save"
    /\ patience' = IF is_best THEN config.patience ELSE Decrement(patience)
    /\ pc' = "incr"
    /\ UNCHANGED <<config, model, ckpt_arg, last, best, epoch, idx,
                   dev_metric, is_best, ckpt, interrupted_at, exc, history, written,
                   completed, loads>>
    /\ UNCHANGED <<stray, otherVars>>

\* Mutant of Increment: the epoch counter is not advanced.
Increment_Forgotten ==
    /\ pc = "incr"
    /\ pc' = "while"
    /\ UNCHANGED <<config, model, ckpt_arg, last, best, epoch, patience, idx,
                   dev_metric, is_best, ckpt, interrupted_at, exc, history,
                   written, completed, loads>>
    /\ UNCHANGED <<stray, otherVars>>

\* line 119
Increment ==
    /\ pc = "incr"
    /\ epoch' = epoch + 1
    /\ pc' = "while"
    /\ UNCHANGED <<config, model, ckpt_arg, last, best, patience, idx,
                   dev_metric, is_best, ckpt, interrupted_at, exc, history, written,
                   completed, loads>>
    /\ UNCHANGED <<stray, otherVars>>

\* A KeyboardInterrupt is raised in the main thread between two statements,
\* or inside torch.save / shutil.copyfile while the file is open.
\* Inside the try block it is caught (lines 120-121) and train returns;
\* while the loaders are built (lines 91-94) nothing catches it.
Interrupt ==
    /\ pc \in TryPcs \cup {"setup"}
    /\ interrupted_at' = pc
    /\ exc' = "KeyboardInterrupt"
    /\ pc' = IF pc \in TryPcs THEN "terminated" ELSE "raised"
    /\ UNCHANGED <<config, model, ckpt_arg, last, best, epoch, patience, idx,
                   dev_metric, is_best, ckpt, history, written, completed, loads>>
    /\ UNCHANGED <<stray, otherVars>>

\* Mutant of TrainError: the exception is swallowed and the loop goes on
\* with the next batch.
TrainError_Skipped ==
    /\ pc \in TryPcs \cup {"setup"}
    /\ interrupted_at' = pc
    /\ exc' = "Exception"
    /\ idx' = IF pc \in BatchPcs /\ idx < NumBatches THEN idx + 1 ELSE idx
    /\ pc' = IF pc \in BatchPcs THEN "batch" ELSE pc
    /\ UNCHANGED <<config, model, ckpt_arg, last, best, epoch, patience,
                   dev_metric, is_best, ckpt, history, written, completed, loads>>
    /\ UNCHANGED <<stray, otherVars>>

\* An exception that is no KeyboardInterrupt is raised while the loaders are
\* built (lines 91-92), or by a statement of the try block or what it calls:
\* train_epoch and train_step, evaluate and predict, save.  The only handler
\* of train is that of line 120: the exception leaves train, with everything
\* as the statements before left it.
TrainError ==
    /\ pc \in TryPcs \cup {"setup"}
    /\ interrupted_at' = pc
    /\ exc' = "Exception"
    /\ pc' = "raised"
    /\ UNCHANGED <<config, model, ckpt_arg, last, best, epoch, patience, idx,
                   dev_metric, is_best, ckpt, history, written, completed, loads>>
    /\ UNCHANGED <<stray, otherVars>>

\* predict (lines 183-200) called on the live instance while train is not
\* running, before it or after it has ended in any way: evaluation mode,
\* forward pass without gradients.
Predict ==
    /\ pc \in CallPcs
    /\ model' = [model EXCEPT !.network.training = FALSE]
    /\ UNCHANGED <<config, ckpt_arg, last, best, pc, epoch, patience, idx,
                   dev_metric, is_best, ckpt, interrupted_at, exc, history,
                   written, completed, loads>>
    /\ UNCHANGED <<stray, otherVars>>

\* torch.load of one of the two files (line 230).
Read(slot) == IF slot = "last" THEN last ELSE best

\* Model.load(config, path) after train has ended: a new instance, built from
\* the checkpoint file, replaces the live one.
Load(slot) ==
    /\ pc \in EndPcs
    /\ loads < MaxLoads
    /\ Readable(Read(slot))
    /\ config' = ConfigInit(config, <<>>, Read(slot))
    /\ model' = ModelInit(config, "none", <<>>, Read(slot))
    /\ ckpt_arg' = Read(slot)
    /\ history' = written[slot]
    /\ loads' = loads + 1
    /\ pc' = IF InitError(config, Read(slot)) = "none"
             THEN "idle" ELSE "init_failed"
    /\ epoch' = 0
    /\ patience' = 0
    /\ idx' = 0
    /\ dev_metric' = 0
    /\ is_best' = FALSE
    /\ ckpt' = NoCkpt
    /\ interrupted_at' = "none"
    /\ exc' = InitError(config, Read(slot))
    /\ completed' = [last |-> last, best |-> best]
    /\ UNCHANGED <<last, best, written>>
    /\ UNCHANGED <<stray, otherVars>>

LoadLast == Load("last")

LoadBest == Load("best")

\* Mutant of SwapNetwork: the live instance becomes best_model altogether.
SwapNetwork_All(m, best_model) == best_model

\* line 237: self.network is rebound to the module object best_model built;
\* no other attribute of self is assigned.
SwapNetwork(m, best_model) ==
    [m EXCEPT !.network = [best_model.network EXCEPT !.id = "best_model"]]

\* load_best (lines 233-237) called on the live instance while train is not
\* running, before it or after it has ended in any way.  best_model is built by Model.load from the best file, with the
\* live instance's config object: its __init__ writes to it (lines 35, 56);
\* should it raise, line 237 is not reached.
\* Without a readable best file torch.load raises and nothing has changed.
load_best ==
    /\ pc \in CallPcs
    /\ Readable(best)
    /\ config' = ConfigInit(config, <<>>, Read("best"))
    /\ model' = IF InitError(config, Read("best")) = "none"
                THEN SwapNetwork(model,
                                 ModelInit(config, "none", <<>>, Read("best")))
                ELSE model
    /\ UNCHANGED <<ckpt_arg, last, best, pc, epoch, patience, idx,
                   dev_metric, is_best, ckpt, interrupted_at, exc, history,
                   written, completed, loads>>
    /\ UNCHANGED <<stray, otherVars>>

\* The steps of a running train call.
TrainRun ==
    \/ TrainBegin
    \/ WhileTest
    \/ NextBatch
    \/ ZeroGrad
    \/ Backward
    \/ OptimizerStep
    \/ PredictDev
    \/ Evaluate
    \/ Decide
    \/ SaveBegin
    \/ TorchOpen
    \/ TorchSave
    \/ CopyOpen
    \/ CopyFile
    \/ SaveEnd
    \/ PatienceUpdate
    \/ Increment

Next ==
    \/ Construct
    \/ TrainCall
    \/ TrainRun
    \/ Interrupt
    \/ TrainError
    \/ Predict
    \/ LoadLast
    \/ LoadBest
    \/ load_best

Spec == Init /\ [][Next]_vars

\* The thread that called train keeps running it (single thread of control,
\* every step of train is a blocking call that returns).
FairSpec == Spec /\ WF_vars(TrainRun)


\* ---------------------------------------------- CamlConvAttnPool.forward

Labels == 1..NumLabels
Positions == 1..SeqLen

\* exp(), on scores that are natural multiples of ln 2.
Exp(z) == 2 ^ z

RECURSIVE SumExp(_, _)
\* The sum of Exp over the entries f[i], i in S.
SumExp(f, S) ==
    IF S = {}
    THEN 0
    ELSE LET i == CHOOSE j \in S : TRUE
         IN Exp(f[i]) + SumExp(f, S \ {i})

\* torch.softmax(x, dim) of a label x position matrix (dims 1 and 2 of the
\* batch x label x position tensor): each entry is exp of itself over the sum
\* of exp along dim, kept as a fraction.
Softmax(x, dim) ==
    [l \in Labels |->
        [t \in Positions |->
            [num |-> Exp(x[l][t]),
             den |-> IF dim = 2
                     THEN SumExp(x[l], Positions)
                     ELSE SumExp([k \in Labels |-> x[k][t]], Labels)]]]

\* Mutant of Attention: the softmax runs along the label axis.
Attention_OverLabels(x) == Softmax(x, 1)

\* caml.py line 43: alpha = torch.softmax(U.weight.matmul(...), dim=2).
Attention(x) == Softmax(x, 2)

\* A document whose score matrix is any label x position matrix over the
\* score range is about to go through line 43.
AttnInit ==
    /\ TrainInit(1, 0, "adam", "glove", "results", NoDir)
    /\ LogIdle
    /\ scores \in [Labels -> [Positions -> 0..MaxScore]]
    /\ alpha = <<>>

\* forward, line 43; alpha is returned as outputs['attention'] (line 51).
Forward ==
    /\ alpha = <<>>
    /\ alpha' = Attention(scores)
    /\ UNCHANGED scores
    /\ UNCHANGED <<trainVars, logVars>>

AttnNext == Forward

AttnSpec == AttnInit /\ [][AttnNext]_vars

\* ---------------------------------------------------------------- dump_log

\* Metric snapshots are numbers: what json.dump writes of them (line 73) is
\* what json.load reads (line 67).

\* lines 64-67: result = {} unless the file exists, then its content.
ReadLogs(file) == IF file.exists THEN file.content ELSE <<>>

\* Mutant of Merge: the split's list is replaced by the new snapshot.
Merge_Overwrite(result, split, metrics) ==
    IF split \in DOMAIN result
    THEN [result EXCEPT ![split] = <<metrics>>]
    ELSE (split :> <<metrics>>) @@ result

\* lines 68-71: append to the split's list, or start it.
Merge(result, split, metrics) ==
    IF split \in DOMAIN result
    THEN [result EXCEPT ![split] = Append(@, metrics)]
    ELSE (split :> <<metrics>>) @@ result

\* Length of a key as json.dump writes it, with its quotes, colon and blank.
KeyLen(split) == IF split = "train" THEN 9 ELSE 7

\* Length of a list of n one-digit snapshots as json.dump writes it: the
\* brackets, the digits, and ", " between them.
ListLen(n) == IF n = 0 THEN 2 ELSE 3 * n

\* Length of the text json.dump (line 73) writes for a dict: the braces, the
\* items, and ", " between them.
RECURSIVE ItemsLen(_, _)
ItemsLen(result, keys) ==
    IF keys = {} THEN 0
    ELSE LET k == CHOOSE x \in keys : TRUE
         IN KeyLen(k) + ListLen(Len(result[k])) + ItemsLen(result, keys \ {k})

JsonLen(result) ==
    LET n == Cardinality(DOMAIN result)
    IN 2 + ItemsLen(result, DOMAIN result) + (IF n > 1 THEN 2 * (n - 1) ELSE 0)

\* Calls of dump_log that have read the file and not yet returned.
InFlight == {p \in Procs : dl[p].pc # "idle"}

LogInit ==
    /\ TrainInit(1, 0, "adam", "glove", "results", NoDir)
    /\ AttnIdle
    /\ LogIdle

\* dump_log(config, metrics, split), lines 62-67: caller p reads the file.
\* json.load of a file that holds no JSON document (emptied by another call's
\* open, or a text with the rest of a longer one behind it) raises
\* JSONDecodeError: the call is over, nothing is written.
DumpLogRead(p) ==
    /\ dl[p].pc = "idle"
    /\ Len(calls) + Cardinality(InFlight) < MaxCalls
    /\ IF logs.exists /\ ~logs.valid
       THEN dl' = dl
       ELSE \E split \in Splits, metrics \in Metrics :
               dl' = [dl EXCEPT ![p] = [pc |-> "merge", split |-> split,
                                        metrics |-> metrics,
                                        result |-> ReadLogs(logs)]]
    /\ overlap' = (overlap \/ InFlight # {})
    /\ UNCHANGED <<logs, calls>>
    /\ UNCHANGED <<trainVars, attnVars>>

\* dump_log lines 68-72: caller p merges, and opens the file for writing,
\* which empties it.
DumpLogOpen(p) ==
    /\ dl[p].pc = "merge"
    /\ dl' = [dl EXCEPT ![p].result = Merge(@, dl[p].split, dl[p].metrics),
                        ![p].pc = "dump"]
    /\ logs' = [exists |-> TRUE, valid |-> FALSE, content |-> <<>>, size |-> 0]
    /\ UNCHANGED <<calls, overlap>>
    /\ UNCHANGED <<trainVars, attnVars>>

\* dump_log line 73: json.dump writes the merged dict from the start of the
\* file as caller p opened it, and the call returns.  The write does not
\* shorten the file: behind a text shorter than what another caller wrote
\* since, the rest of that stays, and the file is no JSON document.
DumpLogWrite(p) ==
    /\ dl[p].pc = "dump"
    /\ logs' = IF JsonLen(dl[p].result) >= logs.size
               THEN [exists |-> TRUE, valid |-> TRUE, content |-> dl[p].result,
                     size |-> JsonLen(dl[p].result)]
               ELSE [exists |-> TRUE, valid |-> FALSE, content |-> <<>>,
                     size |-> logs.size]
    /\ calls' = Append(calls, [split |-> dl[p].split, metrics |-> dl[p].metrics])
    /\ dl' = [dl EXCEPT ![p] = NoCall]
    /\ UNCHANGED overlap
    /\ UNCHANGED <<trainVars, attnVars>>

LogNext == \E p \in Procs : DumpLogRead(p) \/ DumpLogOpen(p) \/ DumpLogWrite(p)

LogSpec == LogInit /\ [][LogNext]_vars

\* ------------------------------------------------- reading the history

\* The evaluated epochs of the live instance's train call.
ThisRun == SelectSeq(history, LAMBDA h : h.inst = loads)

\* Number of trailing records of s that were not an improvement.
RECURSIVE Streak(_)
Streak(s) ==
    IF s = <<>> \/ s[Len(s)].is_best
    THEN 0
    ELSE 1 + Streak(SubSeq(s, 1, Len(s) - 1))

\* The largest metric of the records of s (s not empty).
MaxOf(s) == CHOOSE m \in {s[i].metric : i \in 1..Len(s)} :
                \A i \in 1..Len(s) : s[i].metric <= m

\* The epoch of the latest record of s that attained MaxOf(s).
LatestMaxEpoch(s) ==
    LET i == CHOOSE j \in 1..Len(s) :
                 /\ s[j].metric = MaxOf(s)
                 /\ \A k \in (j + 1)..Len(s) : s[k].metric # MaxOf(s)
    IN s[i].epoch

\* ------------------------------------------------------------------ claims

\* best_metric of the live instance when its train call began.
StartBest == IF ckpt_arg = NoCkpt THEN 0 ELSE ckpt_arg.best_metric

\* The best metric before the i-th evaluated epoch of the call.
BestBefore(i) ==
    LET seen == {StartBest} \cup {ThisRun[j].metric : j \in 1..(i - 1)}
    IN CHOOSE m \in seen : \A x \in seen : x <= m

\* The last n evaluated epochs of the call were each strictly below the best
\* metric so far.
LastBelow(n) ==
    /\ Len(ThisRun) >= n
    /\ \A i \in (Len(ThisRun) - n + 1)..Len(ThisRun) :
           ThisRun[i].metric < BestBefore(i)

\* C1: early stopping.  With patience P >= 1, once the last P evaluated epochs
\* of a train call were each strictly below the best metric so far, the call
\* is past its last train_epoch: it is saving that epoch, at the loop test, or
\* has ended, and is never again in a batch, an evaluation or a decision.
C1_EarlyStopping ==
    (config.patience >= 1 /\ LastBelow(config.patience))
        => pc \notin BatchPcs \cup {"evaluate", "decide"}

\* C1 witness: the loop ended on patience while epochs remained in the budget.
C1_Witness ==
    /\ pc = "returned"
    /\ config.patience >= 1
    /\ LastBelow(config.patience)
    /\ epoch <= config.epochs

\* C2: at every loop test after at least one completed epoch of the call, the
\* best file holds the maximum metric of all evaluated epochs so far, and its
\* epoch is the latest epoch that attained it.
C2_BestHoldsMax ==
    (pc = "while" /\ ThisRun # <<>>)
        => /\ Readable(best)
           /\ best.best_metric = MaxOf(history)
           /\ best.epoch = LatestMaxEpoch(history)

\* C3: the improvement decision.  A decision taken with the metric >= best
\* metric (a tie included) sets best_metric to the metric and makes the save a
\* best save; and when that iteration reaches its end (before the epoch counter
\* moves on) best_metric is the metric, the best file is the checkpoint of the
\* current epoch, and patience is back at config.patience.
C3_ImprovementDecision ==
    /\ [][(pc = "decide" /\ pc' = "save" /\ dev_metric >= model.best_metric)
             => (model'.best_metric = dev_metric /\ is_best')]_vars
    /\ []((pc = "incr" /\ is_best)
             => /\ model.best_metric = dev_metric
                /\ best = MakeCkpt(model, config, epoch)
                /\ patience = config.patience)

\* The epoch of the latest improving record of s (s has one).
LatestImprovingEpoch(s) ==
    LET i == CHOOSE j \in 1..Len(s) :
                 s[j].is_best /\ \A k \in (j + 1)..Len(s) : ~s[k].is_best
    IN s[i].epoch

\* C4: a non-improving epoch.  A decision taken with the metric strictly below
\* best_metric leaves best_metric alone and makes the save a plain save; no
\* step of that save, nor the patience update after it, changes the best file
\* or best_metric; the patience update decreases patience by exactly 1; and at
\* the end of the iteration the last file is the checkpoint of the current
\* epoch while the best file is still that of the latest improving epoch of
\* the call.
C4_NonImprovingEpoch ==
    /\ [][(pc = "decide" /\ pc' = "save" /\ dev_metric < model.best_metric)
             => (~is_best' /\ model'.best_metric = model.best_metric)]_vars
    /\ [][(pc \in SavePcs \cup {"post_save"} /\ ~is_best)
             => (best' = best /\ model'.best_metric = model.best_metric)]_vars
    /\ [][(pc = "post_save" /\ pc' = "incr" /\ ~is_best)
             => patience' = patience - 1]_vars
    /\ []((pc = "incr" /\ ~is_best)
             => /\ last = MakeCkpt(model, config, epoch)
                /\ (\E i \in 1..Len(ThisRun) : ThisRun[i].is_best)
                      => best.epoch = LatestImprovingEpoch(ThisRun))

\* C5: a loaded instance resumes after the checkpoint's epoch.  For an instance
\* built from a checkpoint of epoch e: the epochs its train call evaluates are
\* e+1, e+2, ... in order, the epoch in progress being the next one; until its
\* first decision best_metric is the checkpoint's; and when e >= config.epochs
\* the call never trains, evaluates or saves.
C5_ResumeEpoch ==
    ckpt_arg # NoCkpt =>
        /\ \A i \in 1..Len(ThisRun) : ThisRun[i].epoch = ckpt_arg.epoch + i
        /\ pc \in BatchPcs \cup {"evaluate", "decide"}
              => epoch = ckpt_arg.epoch + Len(ThisRun) + 1
        /\ (ThisRun = <<>>) => model.best_metric = ckpt_arg.best_metric
        /\ ckpt_arg.epoch >= config.epochs
              => /\ pc \in {"idle", "setup", "while"} \cup EndPcs
                 /\ ThisRun = <<>>

\* C5 witness: an instance loaded from a checkpoint of epoch e >= 1 is in the
\* first batch of its first epoch, which is e+1.
C5_Witness ==
    /\ ckpt_arg # NoCkpt
    /\ ckpt_arg.epoch >= 1
    /\ ThisRun = <<>>
    /\ pc = "zero_grad"
    /\ epoch = ckpt_arg.epoch + 1

\* C6: resume equivalence, as a property of the resumed run itself.  An
\* uninterrupted run has, at every loop test, config.patience minus the number
\* of trailing non-improving epochs left as patience, and never evaluates an
\* epoch after config.patience consecutive non-improving ones.  Equivalence
\* asks the same of a run that was stopped, loaded from a file and continued,
\* over the epochs it descends from.
C6_ResumeEquivalence ==
    /\ pc = "while" => patience = config.patience - Streak(history)
    /\ \A i \in 1..Len(history) :
           Streak(SubSeq(history, 1, i - 1)) < config.patience

\* C7: checkpoint round trip.  From the moment save(e) has written the last
\* file until it has returned, the instance Model.load builds from that file
\* has the saver's network parameters, optimizer state, vocabulary, label set
\* and best_metric, and start_epoch = e; and the same for the copy a best
\* save has made of it.
RoundTrip(file) ==
    LET loaded == ModelInit(ConfigInit(config, <<>>, file), "none", <<>>, file)
    IN /\ loaded.network.weights = model.network.weights
       /\ loaded.optimizer.state = model.optimizer.state
       /\ loaded.optimizer.name = model.optimizer.name
       /\ loaded.word_dict = model.word_dict
       /\ loaded.classes = model.classes
       /\ loaded.best_metric = model.best_metric
       /\ loaded.start_epoch = epoch
       /\ ConfigInit(config, <<>>, file) = config

C7_RoundTrip ==
    /\ pc \in {"copyfile", "copy_write", "save_end", "post_save"}
          => RoundTrip(last)
    /\ (pc \in {"save_end", "post_save"} /\ is_best)
          => RoundTrip(IF SameDir(config) THEN best ELSE stray)

\* C7 witness: a save of epoch 2 has returned, with trained weights, optimizer
\* state and a non-zero best metric in the file.
C7_Witness ==
    /\ pc = "post_save"
    /\ epoch = 2
    /\ last.epoch = 2
    /\ last.state_dict = 2 * NumBatches
    /\ last.optimizer = 2 * NumBatches
    /\ last.best_metric > 0

\* C8: when save returns, the last file is the checkpoint of the saved epoch;
\* after a best save the best file is identical to the last file; and no step
\* of a plain save writes the best file.
C8_SaveSlots ==
    /\ [](pc = "post_save" => last = MakeCkpt(model, config, epoch))
    /\ []((pc = "post_save" /\ is_best) => best = last)
    /\ [][(pc \in SavePcs /\ ~is_best) => best' = best]_vars

\* C9: graceful interrupt.  After train has returned from a caught interrupt,
\* both files are what they were when the last save returned (or when the
\* instance was built): nothing of the epoch in flight is in either file.
C9_GracefulInterrupt ==
    pc = "terminated" => (last = completed.last /\ best = completed.best)

\* C10: cancellation points.  A caught interrupt was not raised inside a
\* train_step after the gradients were zeroed and before the optimizer
\* stepped; and the weights reached at the end of the most recently finished
\* train_epoch of the call are the ones in the last file.
C10_CancellationPoints ==
    pc = "terminated" =>
        /\ interrupted_at \notin {"backward", "step"}
        /\ LET trained == Len(ThisRun)
                            + (IF interrupted_at \in {"evaluate", "decide"}
                               THEN 1 ELSE 0)
               weights == IF interrupted_at \in BatchPcs
                          THEN model.network.weights - idx
                          ELSE model.network.weights
           IN trained >= 1 => (Readable(last) /\ last.state_dict = weights)

\* C11: load_best is a frame on everything but the network.  Every load_best
\* step leaves the live instance with the weights stored in the best file and
\* with the optimizer, start_epoch, best_metric, vocabulary and label set it
\* had; the config object (run_name included) is as before; and neither file
\* is written.
C11_LoadBestFrame ==
    [][load_best
          => /\ model'.network.weights = best.state_dict
             /\ model'.optimizer = model.optimizer
             /\ model'.start_epoch = model.start_epoch
             /\ model'.best_metric = model.best_metric
             /\ model'.word_dict = model.word_dict
             /\ model'.classes = model.classes
             /\ config' = config
             /\ last' = last
             /\ best' = best]_vars

\* C11 witness: after a train call that was interrupted when its last saved
\* epoch was not its best, load_best has put the best file's weights into the
\* instance, whose optimizer state and start_epoch are not those of the best
\* file.
C11_Witness ==
    /\ pc = "terminated"
    /\ Readable(best)
    /\ Readable(last)
    /\ model.network.id = "best_model"
    /\ model.network.weights = best.state_dict
    /\ best.state_dict # last.state_dict
    /\ model.optimizer.state = last.optimizer
    /\ model.optimizer.state # best.optimizer
    /\ model.start_epoch # best.epoch

\* C12: an unsupported optimizer name makes the constructor fail, and when it
\* has failed nothing has been constructed or changed: the instance has no
\* network, the vectors of the vocabulary are not loaded, and the config
\* object (num_class, run_name) is as it was passed.
C12_NoPartialState ==
    /\ [][(pc = "new" /\ config.optimizer \notin {"sgd", "adam"})
             => pc' = "init_failed"]_vars
    /\ [][(pc = "new" /\ exc' = "RuntimeError")
             => /\ model'.network = NoNetwork
                /\ ~model'.word_dict.vectors
                /\ config' = config]_vars

\* C13: an exception other than KeyboardInterrupt raised in train_epoch /
\* train_step or in evaluate leaves train: once it is raised the call is over
\* (no batch after the failing one is taken, no later epoch run), and both
\* files are what they were when the last save returned, so none holds a
\* checkpoint this call wrote for the failing epoch.
C13_ErrorsPropagate ==
    (exc = "Exception" /\ interrupted_at \in BatchPcs \cup {"evaluate"}) =>
        /\ pc = "raised"
        /\ last = completed.last
        /\ best = completed.best
        /\ \A i \in 1..Len(written.last) :
               written.last[i].inst = loads => written.last[i].epoch < epoch

\* C13 witness: the optimizer step of the second batch of a later epoch has
\* raised; the last file is the checkpoint of the epoch before.
C13_Witness ==
    /\ exc = "Exception"
    /\ pc = "raised"
    /\ interrupted_at = "step"
    /\ idx = 1
    /\ epoch >= 2
    /\ last.epoch = epoch - 1

\* C14: termination of train.  A train call that has started comes to its
\* end.  The loop test leaves the loop exactly when patience is 0 or the
\* epoch counter is above config.epochs.  An epoch is only run while the
\* counter is at most config.epochs, so the call evaluates at most
\* config.epochs - start_epoch epochs; and the counter moves only at the end
\* of an iteration, by exactly 1, so that at every loop test it is
\* start_epoch + 1 + the number of epochs the call has run.
C14_Termination ==
    /\ (pc \in {"setup"} \cup TryPcs) ~> (pc \in EndPcs)
    /\ [][(pc = "while" /\ pc' \in {"batch", "returned"})
             => (pc' = "returned"
                    <=> (patience = 0 \/ epoch > config.epochs))]_vars
    /\ [](pc \in TryPcs \ {"while"} => epoch <= config.epochs)
    /\ [](pc \in TryPcs \cup EndPcs
             => Len(ThisRun) <= config.epochs - model.start_epoch)
    /\ [][(pc \in TryPcs /\ pc' \in TryPcs /\ epoch' # epoch)
             => (pc = "incr" /\ epoch' = epoch + 1)]_vars
    /\ [](pc = "while" => epoch = model.start_epoch + 1 + Len(ThisRun))

\* C14 witness: a resumed call has left the loop on the epoch budget, with
\* patience left, after config.epochs - start_epoch epochs.
C14_Witness ==
    /\ pc = "returned"
    /\ model.start_epoch >= 1
    /\ epoch = config.epochs + 1
    /\ patience >= 1
    /\ Len(ThisRun) = config.epochs - model.start_epoch
    /\ Len(ThisRun) >= 1

\* C16: gradient clipping per step.  Whenever the optimizer is about to step
\* (backward has run for the batch), the gradients it will apply have been
\* clipped.
C16_ClippedBeforeStep ==
    pc = "step" => model.network.grad = "clipped"

\* C17: network mode discipline.  While save serialises and copies, the
\* network is in evaluation mode, and when save has returned it is in
\* training mode; the forward pass of every train_step was made in training
\* mode, also the first one after a save or after a predict call; and the
\* forward passes of predict, called by evaluate or by the user, are made in
\* evaluation mode.
C17_ModeDiscipline ==
    /\ [](pc \in SavePcs \ {"save"} => ~model.network.training)
    /\ [](pc = "post_save" => model.network.training)
    /\ [](pc \in {"zero_grad", "backward", "step"} => model.network.training)
    /\ [][PredictDev => ~model'.network.training]_vars
    /\ [][Predict => ~model'.network.training]_vars

\* C17 witness: the first train_step of an epoch that follows a save has made
\* its forward pass, in training mode.
C17_Witness ==
    /\ pc = "zero_grad"
    /\ idx = 0
    /\ ThisRun # <<>>
    /\ last.epoch = epoch - 1
    /\ model.network.training

\* C19: the patience invariant.  From the start of the try block to the end
\* of train, 0 <= patience <= config.patience; while an epoch is trained,
\* evaluated, decided or saved, patience is at least 1; with config.patience
\* = 0 no epoch is ever evaluated and no file written; and at the end of an
\* improving iteration patience is config.patience.
C19_PatienceInvariant ==
    /\ pc \in TryPcs \cup EndPcs
          => (0 <= patience /\ patience <= config.patience)
    /\ pc \in BatchPcs \cup {"evaluate", "decide"} \cup SavePcs \cup {"post_save"}
          => patience >= 1
    /\ config.patience = 0
          => (history = <<>> /\ last = NoCkpt /\ best = NoCkpt)
    /\ (pc = "incr" /\ is_best) => patience = config.patience

\* C19 witness: with config.patience = 2, an improving iteration that follows
\* a non-improving one has ended: patience is back at 2.
C19_Witness ==
    /\ pc = "incr"
    /\ is_best
    /\ config.patience = 2
    /\ patience = 2
    /\ Len(ThisRun) >= 2
    /\ ~ThisRun[Len(ThisRun) - 1].is_best

\* C20: optimizer binding.  In every state of a constructed instance the
\* parameters its optimizer holds are those of the network it has now; and
\* every optimizer step of a train_step changes the weights of that network.
C20_OptimizerBinding ==
    /\ [](pc \notin {"new", "init_failed"} => Bound(model))
    /\ [][(pc = "step" /\ pc' = "batch")
             => model'.network.weights # model.network.weights]_vars

\* ---------------------------------------------------- claims on attention

\* Sum of fractions, as a fraction.
AddFrac(f, g) == [num |-> f.num * g.den + g.num * f.den, den |-> f.den * g.den]

RECURSIVE SumFrac(_, _)
\* The sum of the fractions f[i], i in S.
SumFrac(f, S) ==
    IF S = {}
    THEN [num |-> 0, den |-> 1]
    ELSE LET i == CHOOSE j \in S : TRUE
         IN AddFrac(f[i], SumFrac(f, S \ {i}))

IsOne(f) == f.num = f.den

\* C15: label-wise attention.  For the document and every label, the
\* attention weights forward returns are non-negative and their sum over the
\* sequence positions is 1, whatever the scores of the other labels are.
C15_AttentionNormalised ==
    alpha # <<>> =>
        \A l \in Labels :
            /\ \A t \in Positions : alpha[l][t].num >= 0 /\ alpha[l][t].den > 0
            /\ IsOne(SumFrac(alpha[l], Positions))

\* C15 witness: attention has been computed for a document whose labels score
\* the positions differently; at some position the weights of the labels do
\* not sum to 1, so they are not normalised across labels.
C15_Witness ==
    /\ alpha # <<>>
    /\ \E l, k \in Labels : scores[l] # scores[k]
    /\ \E l \in Labels : \E t, u \in Positions : scores[l][t] # scores[l][u]
    /\ \E t \in Positions :
          ~IsOne(SumFrac([l \in Labels |-> alpha[l][t]], Labels))

\* ----------------------------------------------------- claims on dump_log

\* The list the file holds for a split (none: the empty list).
LoggedIn(file, s) ==
    IF file.exists /\ file.valid /\ s \in DOMAIN file.content
    THEN file.content[s]
    ELSE <<>>

\* The snapshots passed for a split by the calls that have returned, in order.
Passed(s) ==
    LET sel == SelectSeq(calls, LAMBDA c : c.split = s)
    IN [i \in 1..Len(sel) |-> sel[i].metrics]

\* C18: the logs file under sequential calls.  As long as no dump_log call
\* has read the file while another had not returned, then whenever no call is
\* running the file holds for each split exactly the snapshots passed for it,
\* in call order, and has a key for a split only if a snapshot was passed for
\* it; and each returning call leaves in the file its split's earlier
\* snapshots followed by its own, and the other splits' lists as they were.
C18_LogsAppend ==
    /\ []((~overlap /\ InFlight = {})
             => \A s \in Splits :
                    /\ LoggedIn(logs, s) = Passed(s)
                    /\ logs.exists
                          => (s \in DOMAIN logs.content <=> Passed(s) # <<>>))
    /\ [][(~overlap' /\ calls' # calls)
             => /\ LoggedIn(logs', calls'[Len(calls')].split)
                      = Append(Passed(calls'[Len(calls')].split),
                               calls'[Len(calls')].metrics)
                /\ \A s \in Splits \ {calls'[Len(calls')].split} :
                       LoggedIn(logs', s) = Passed(s)]_vars

\* C18 witness: three calls, each made after the one before had returned,
\* two of them for the same split with different snapshots; the file has both
\* splits.
C18_Witness ==
    /\ ~overlap
    /\ InFlight = {}
    /\ Len(calls) = 3
    /\ DOMAIN logs.content = Splits
    /\ \E s \in Splits :
          /\ Len(LoggedIn(logs, s)) = 2
          /\ LoggedIn(logs, s)[1] # LoggedIn(logs, s)[2]

=============================================================================
